---- MODULE Spec2Model ----
(***************************************************************************)
(* A model of the core package of abelian-sdk-go: the ring-group helpers,  *)
(* the transaction assembler (GenerateUnsignedRawTx, GenerateSignedRawTx)  *)
(* and the address hierarchy (Coin/Crypto/Abel/ShortAbel addresses).       *)
(*                                                                         *)
(* The package is stateless: a client calls one operation at a time.  The  *)
(* state of the model is the last call (op), its arguments (arg), what the *)
(* call handed to and got from the abec backend (api), and what the call   *)
(* returned (ret).  A successful GenerateUnsignedRawTx may be kept by the  *)
(* client (unsignedTx) and then signed.                                    *)
(*                                                                         *)
(* The abec backend (github.com/abesuite/abec/sdkapi/v1) is not part of    *)
(* the package: each of its answers is a nondeterministic input.           *)
(***************************************************************************)
EXTENDS Integers, Sequences, FiniteSets, Bags, TLC

VARIABLES op, arg, api, ret, unsignedTx, viewSecretKeyBytes

vars == <<op, arg, api, ret, unsignedTx, viewSecretKeyBytes>>

----------------------------------------------------------------------------
(* Machine integers.                                                       *)
(* Go's int64 is modelled as a two's complement integer of IntBits bits    *)
(* (TLC's own integers have 32): every value of the type is enumerated and *)
(* arithmetic wraps as the machine's does.                                 *)

IntBits == 12

RECURSIVE Pow2(_)
Pow2(n) == IF n = 0 THEN 1 ELSE 2 * Pow2(n - 1)

MinInt64 == -Pow2(IntBits - 1)

MaxInt64 == Pow2(IntBits - 1) - 1

Int64 == MinInt64..MaxInt64

\* The value an int64 expression holds after two's complement wrap-around.
WrapInt64(x) == ((x - MinInt64) % Pow2(IntBits)) + MinInt64

\* Go's conversion uint64(v) of an int64 v: the same bits read unsigned.
ToUint64(v) == v % Pow2(IntBits)

\* Go's remainder a % n (n > 0): truncated, it takes the sign of a.
GoRem(a, n) == IF a >= 0 THEN a % n ELSE -((-a) % n)

\* byte and int8 (8 bits, as in the program).
Byte == 0..255

Int8 == -128..127

\* Go's conversion byte(x) of an integer, and byte arithmetic modulo 256.
ToByte(x) == x % 256

\* Go's conversion int8(b) of a byte b.
ToInt8(b) == IF b >= 128 THEN b - 256 ELSE b

----------------------------------------------------------------------------
(* Ring-group helpers.                                                     *)

\* Mutant: the window starts at the queried height (the alignment is lost).
GetRingBlockHeights_unaligned(height) ==
    << height, WrapInt64(height + 1), WrapInt64(height + 2) >>

\* Mutant: the quotient height/3 is taken for the window's first height.
GetRingBlockHeights_quotient(height) ==
    LET q == (height - GoRem(height, 3)) \div 3
    IN  << q, WrapInt64(q + 1), WrapInt64(q + 2) >>

GetRingBlockHeights(height) ==
    LET firstRingBlockHeight == WrapInt64(height - GoRem(height, 3))
    IN  << firstRingBlockHeight,
           WrapInt64(firstRingBlockHeight + 1),
           WrapInt64(firstRingBlockHeight + 2) >>

\* sort.Slice(heights, less) with less(i, j) == heights[i] < heights[j]:
\* the elements of s in ascending order (an insertion sort).
RECURSIVE InsertSorted(_, _)
InsertSorted(s, x) ==
    IF s = << >> THEN << x >>
    ELSE IF x < Head(s) THEN << x >> \o s
    ELSE << Head(s) >> \o InsertSorted(Tail(s), x)

RECURSIVE SortSlice(_)
SortSlice(s) ==
    IF s = << >> THEN << >>
    ELSE InsertSorted(SortSlice(Tail(s)), Head(s))

\* Mutant: the heights are used in the order the map yields them.
getSerializedBlocksForRingGroup_unsorted(ringBlockDescs, iterOrder) ==
    [i \in 1..Len(iterOrder) |-> ringBlockDescs[iterOrder[i]].BinData]

\* ringBlockDescs is a map height -> TxBlockDesc; iterOrder is the order in
\* which `for height := range ringBlockDescs` happens to yield its keys.
getSerializedBlocksForRingGroup(ringBlockDescs, iterOrder) ==
    LET heights == SortSlice(iterOrder)
    IN  [i \in 1..Len(heights) |-> ringBlockDescs[heights[i]].BinData]

----------------------------------------------------------------------------
(* Inputs of the ring-group helpers.                                       *)

\* The most blocks a map of ring block descriptors holds.
MaxBlocks == 3

\* Heights used as map keys: negative, zero, non-contiguous, one ring.
MapHeights == {-3, 0, 7, 300, 301, 302}

BinDatas == {<<10>>, <<20>>}

\* All orders in which a map with key set K may be iterated.
Perms(K) ==
    {s \in [1..Cardinality(K) -> K] : \A i, j \in 1..Cardinality(K) : i # j => s[i] # s[j]}

\* TxBlockDesc values; the Height field need not agree with the map key.
TxBlockDescs == {[BinData |-> b, Height |-> 300] : b \in BinDatas}

BlockMaps ==
    UNION {[K -> TxBlockDescs] :
            K \in {K \in SUBSET MapHeights : Cardinality(K) <= MaxBlocks}}

None == [fn |-> "none"]

----------------------------------------------------------------------------
(* Transaction assembler.                                                  *)

\* hex.EncodeToString: two hexadecimal digits (their values, 0..15) per byte.
RECURSIVE HexEncodeToString(_)
HexEncodeToString(bytes) ==
    IF bytes = << >> THEN << >>
    ELSE << Head(bytes) \div 16, Head(bytes) % 16 >> \o HexEncodeToString(Tail(bytes))

\* AbelAddress.GetCryptoAddress().Data() of an output's address: the
\* CryptoAddress bytes embedded in it (here named after the address).
CryptoAddressDataOf(abelAddress) == << "cryptoAddress", abelAddress >>

\* Mutant: NewUnsignedRawTx drops the signers it is given.
NewUnsignedRawTx_nosigners(data, signers) ==
    [Bytes |-> data, Signers |-> << >>]

\* NewUnsignedRawTx(data, signers...): signers is the variadic argument list.
NewUnsignedRawTx(data, signers) ==
    [Bytes |-> data,
     Signers |-> IF Len(signers) = 0 THEN << >> ELSE signers[1]]

NewSignedRawTx(data, txid) == [Bytes |-> data, Txid |-> txid]

\* The outpoint api.NewOutPointFromTxIdStr builds for one input.
OutPointOf(txInDesc) ==
    [txidStr |-> HexEncodeToString(txInDesc.TxHash), index |-> txInDesc.TxOutIndex]

\* The pair api.NewTxRequestOutputDesc builds for one output.
TxRequestOutputDescOf(txOutDesc) ==
    [cryptoAddressData |-> CryptoAddressDataOf(txOutDesc.AbelAddress),
     coinValue |-> ToUint64(txOutDesc.CoinValue)]

\* Mutant: the signers are collected in reverse input order.
SignersOf_reversed(txInDescs) ==
    [i \in 1..Len(txInDescs) |-> txInDescs[Len(txInDescs) + 1 - i].Owner]

\* The loop over txDesc.TxInDescs that appends each input's Owner.
SignersOf(txInDescs) ==
    [i \in 1..Len(txInDescs) |-> txInDescs[i].Owner]

\* GenerateUnsignedRawTx(txDesc).  The backend's answers are inputs:
\*   iterOrder  the order in which the map TxRingBlockDescs is iterated,
\*   badIn      the first input whose outpoint the backend refuses (0: none),
\*   badOut     the first output whose address has no coin address the
\*              backend can extract (0: none): GetCoinAddress then panics,
\*   buildErr   whether BuildTransferTxRequestDescFromBlocks fails,
\*   blob       the request bytes it returns otherwise.
\* The result is <<ret, api>>: what the call returns and the last backend
\* call it made.
GenerateUnsignedRawTx(txDesc, iterOrder, badIn, badOut, buildErr, blob) ==
    LET ins == txDesc.TxInDescs
        outs == txDesc.TxOutDescs
        outPointsToSpend == [i \in 1..Len(ins) |-> OutPointOf(ins[i])]
        serializedBlocksForRingGroup ==
            getSerializedBlocksForRingGroup(txDesc.TxRingBlockDescs, iterOrder)
        txRequestOutputDescs == [i \in 1..Len(outs) |-> TxRequestOutputDescOf(outs[i])]
        build == [fn |-> "BuildTransferTxRequestDescFromBlocks",
                  outPointsToSpend |-> outPointsToSpend,
                  serializedBlocksForRingGroup |-> serializedBlocksForRingGroup,
                  txRequestOutputDescs |-> txRequestOutputDescs,
                  txFee |-> ToUint64(txDesc.TxFee),
                  txMemo |-> txDesc.TxMemo,
                  err |-> buildErr]
    IN  IF badIn > 0
        THEN << [status |-> "err", err |-> "NewOutPointFromTxIdStr"],
                [fn |-> "NewOutPointFromTxIdStr",
                 outPoint |-> outPointsToSpend[badIn], err |-> TRUE] >>
        ELSE IF badOut > 0
        THEN << [status |-> "panic", err |-> "ExtractCoinAddressFromCryptoAddress"],
                [fn |-> "ExtractCoinAddressFromCryptoAddress",
                 cryptoAddressData |-> CryptoAddressDataOf(outs[badOut].AbelAddress),
                 err |-> TRUE] >>
        ELSE IF buildErr
        THEN << [status |-> "err", err |-> "BuildTransferTxRequestDescFromBlocks"],
                build >>
        ELSE << [status |-> "ok",
                 tx |-> NewUnsignedRawTx(blob, << SignersOf(ins) >>)],
                build >>

\* Mutant: the raw transaction ID is stored as the backend returned it.
ReverseTxid_kept(txid) == txid

\* The loop reversedTxid[i] = txid[len(txid)-i-1].
ReverseTxid(txid) ==
    [i \in 1..Len(txid) |-> txid[Len(txid) - i + 1]]

\* The api.CryptoKey built for one signer.
ApiCryptoKeyOf(key) ==
    [address |-> key.CryptoAddress, spend |-> key.SpendSecretKey,
     sn |-> key.SerialNoSecretKey, view |-> key.ViewSecretKey]

\* GenerateSignedRawTx(unsignedRawTx, signerKeys).  The backend's answer to
\* CreateTransferTx is an input: signErr, or the bytes full and the raw txid.
GenerateSignedRawTx(unsignedRawTx, signerKeys, signErr, full, txid) ==
    LET cryptoKeys == [i \in 1..Len(signerKeys) |-> ApiCryptoKeyOf(signerKeys[i])]
        create == [fn |-> "CreateTransferTx",
                   serializedTxRequestDesc |-> unsignedRawTx.Bytes,
                   cryptoKeys |-> cryptoKeys,
                   txid |-> txid,
                   err |-> signErr]
    IN  IF signErr
        THEN << [status |-> "err", err |-> "CreateTransferTx"], create >>
        ELSE << [status |-> "ok", tx |-> NewSignedRawTx(full, ReverseTxid(txid))],
                create >>

----------------------------------------------------------------------------
(* Inputs of the transaction assembler.                                    *)

\* The most inputs plus outputs of a TxDesc.
MaxTxItems == 3

\* The most signer keys handed to GenerateSignedRawTx.
MaxKeys == 2

\* The longest raw transaction ID the backend returns.
MaxTxidLen == 3

\* Sequences over S of length at most n.
SeqUpTo(S, n) == UNION {[1..k -> S] : k \in 0..n}

\* Owners are *ShortAbelAddress; NewTxInDesc leaves Owner nil.
TxInDescSet ==
    { [TxHash |-> <<171, 1>>, TxOutIndex |-> 0, Owner |-> "a1", Height |-> 300],
      [TxHash |-> <<171, 1>>, TxOutIndex |-> 1, Owner |-> "a2", Height |-> 302],
      [TxHash |-> <<0, 255>>, TxOutIndex |-> 0, Owner |-> "nil", Height |-> 7] }

TxOutDescSet ==
    { [AbelAddress |-> "A1", CoinValue |-> 1000],
      [AbelAddress |-> "A2", CoinValue |-> 0],
      [AbelAddress |-> "A2", CoinValue |-> -1] }

TxRingBlockDescSet ==
    { [h \in {300, 301, 302} |-> [BinData |-> <<h % 256>>, Height |-> h]],
      [h \in {7, 300} |-> [BinData |-> <<h % 256>>, Height |-> h]] }

TxDescs ==
    { [TxInDescs |-> ins, TxOutDescs |-> outs, TxFee |-> 10, TxMemo |-> << >>,
       TxRingBlockDescs |-> blocks] :
        ins \in SeqUpTo(TxInDescSet, MaxTxItems),
        outs \in SeqUpTo(TxOutDescSet, MaxTxItems),
        blocks \in TxRingBlockDescSet }

\* The keys and address of the owner of a short address.
KeysOf(owner) ==
    [CryptoAddress |-> << "cryptoAddress", owner >>,
     SpendSecretKey |-> << "spend", owner >>,
     SerialNoSecretKey |-> << "sn", owner >>,
     ViewSecretKey |-> << "view", owner >>,
     owner |-> owner]

SignerKeySet == {KeysOf("a1"), KeysOf("a2")}

Txids == SeqUpTo({0, 255}, MaxTxidLen)

----------------------------------------------------------------------------
(* Address hierarchy.                                                      *)
(* An address is [data, addressType, fingerprint]; byte strings are        *)
(* sequences of bytes, nil and the empty string both << >>.  A call that   *)
(* panics yields Panic(reason) in place of its result.                     *)

COIN_ADDRESS_LENGTH == 9504

CRYPTO_ADDRESS_LENGTH == 10696

ABEL_ADDRESS_LENGTH == 10729

SHORT_ABEL_ADDRESS_LENGTH == 66

DEFAULT_CHAIN_ID == 0

Panic(reason) == [panic |-> reason]

IsPanic(x) == "panic" \in DOMAIN x

\* The sum of the bytes of s: the bag in which each index i occurs s[i] + 1
\* times holds that sum and Len(s) more.
SumBytes(s) == BagCardinality([i \in 1..Len(s) |-> s[i] + 1]) - Len(s)

\* abeAddr.CheckSumLength(): what an AbelAddress holds besides the chain ID
\* byte and the CryptoAddress.
CheckSumLength == ABEL_ADDRESS_LENGTH - 1 - CRYPTO_ADDRESS_LENGTH

\* abeAddr.CheckSum(bytes), a digest in the library abeutil.  Its stand-in
\* here depends on every byte, and changes whenever one byte changes.
CheckSum(bytes) ==
    LET sum == SumBytes(bytes) + Len(bytes)
    IN  [j \in 1..CheckSumLength |-> (sum + j) % 256]

\* Bytes.Sha256(): the digest of a byte string, 32 bytes (a stand-in).
Sha256(bytes) ==
    LET sum == SumBytes(bytes) + Len(bytes)
    IN  [j \in 1..32 |-> (sum * 3 + j) % 256] \o << >>

\* NewAddress(data, addressType, fingerprint...): fingerprint is the
\* variadic argument list, of which the first entry is kept.
NewAddress(data, addressType, fingerprint) ==
    IF Len(fingerprint) = 0
    THEN Panic("index out of range")
    ELSE [data |-> data, addressType |-> addressType, fingerprint |-> fingerprint[1]]

\* Address.Validate(): "nil" or the error's text.
AddressValidate(a) ==
    IF Len(a.data) = 0 THEN "address data is empty"
    ELSE IF Len(a.fingerprint) = 0 THEN "address fingerprint is empty"
    ELSE "nil"

NewCoinAddress(data) == NewAddress(data, "CoinAddress", << Sha256(data) >>)

CoinAddressValidate(a) ==
    LET err == AddressValidate(a)
    IN  IF err # "nil" THEN err
        ELSE IF Len(a.data) # COIN_ADDRESS_LENGTH
        THEN "coin address data length is not 9504"
        ELSE "nil"

\* CryptoAddress.GetCoinAddress().  extract is the backend's answer to
\* api.ExtractCoinAddressFromCryptoAddress(a.data): [err, coinAddressData].
CryptoAddressGetCoinAddress(a, extract) ==
    IF extract.err
    THEN Panic("Failed to extract coin address from crypto address")
    ELSE NewCoinAddress(extract.coinAddressData)

NewCryptoAddress(data, extract) ==
    LET cryptoAddress == NewAddress(data, "CryptoAddress", << << >> >>)
        coinAddress == CryptoAddressGetCoinAddress(cryptoAddress, extract)
    IN  IF IsPanic(coinAddress) THEN coinAddress
        ELSE [cryptoAddress EXCEPT !.fingerprint = coinAddress.fingerprint]

CryptoAddressValidate(a) ==
    LET err == AddressValidate(a)
    IN  IF err # "nil" THEN err
        ELSE IF Len(a.data) # CRYPTO_ADDRESS_LENGTH
        THEN "crypto address data length is not 10696"
        ELSE "nil"

\* AbelAddress.GetChainID(): int8(data[0]).
AbelAddressGetChainID(a) == ToInt8(a.data[1])

\* AbelAddress.GetCryptoAddress(): data[1 : len-CheckSumLength()] wrapped by
\* NewCryptoAddress; the slice expression panics when the bounds are not
\* 1 <= len-CheckSumLength().
AbelAddressGetCryptoAddress(a, extract) ==
    IF Len(a.data) - CheckSumLength < 1
    THEN Panic("slice bounds out of range")
    ELSE NewCryptoAddress(SubSeq(a.data, 2, Len(a.data) - CheckSumLength), extract)

\* AbelAddress.GetChecksum(): data[len-CheckSumLength():].
AbelAddressGetChecksum(a) ==
    SubSeq(a.data, Len(a.data) - CheckSumLength + 1, Len(a.data))

NewAbelAddress(data, extract) ==
    LET abelAddress == NewAddress(data, "AbelAddress", << << >> >>)
        cryptoAddress == AbelAddressGetCryptoAddress(abelAddress, extract)
    IN  IF IsPanic(cryptoAddress) THEN cryptoAddress
        ELSE [abelAddress EXCEPT !.fingerprint = cryptoAddress.fingerprint]

\* NewAbelAddressFromCryptoAddress(cryptoAddress, chainID...): chainID is
\* the variadic argument list.  The instance address of abeutil serializes
\* to the chain ID byte followed by the CryptoAddress bytes.
NewAbelAddressFromCryptoAddress(cryptoAddress, chainID) ==
    LET id == IF Len(chainID) = 0 THEN DEFAULT_CHAIN_ID ELSE chainID[1]
        serializedInstanceAddress == << ToByte(id) >> \o cryptoAddress.data
        checkSum == CheckSum(serializedInstanceAddress)
        abelAddressData == serializedInstanceAddress \o checkSum
    IN  [data |-> abelAddressData, addressType |-> "AbelAddress",
         fingerprint |-> cryptoAddress.fingerprint]

\* Mutant: the backend's validity check comes before the chain ID range
\* check.
AbelAddressValidate_validityFirst(a, extract, checkOK) ==
    LET err == AddressValidate(a)
        chainID == AbelAddressGetChainID(a)
        cryptoAddress == AbelAddressGetCryptoAddress(a, extract)
        checksum == AbelAddressGetChecksum(a)
        calculatedChecksum == CheckSum(<< ToByte(chainID) >> \o cryptoAddress.data)
    IN  IF err # "nil" THEN [status |-> "ok", err |-> err, calls |-> << >>]
        ELSE IF Len(a.data) # ABEL_ADDRESS_LENGTH
        THEN [status |-> "ok", err |-> "abel address data length is not 10729",
              calls |-> << >>]
        ELSE IF IsPanic(cryptoAddress)
        THEN [status |-> "panic", err |-> cryptoAddress.panic,
              calls |-> << "ExtractCoinAddressFromCryptoAddress" >>]
        ELSE IF ~checkOK
        THEN [status |-> "ok",
              err |-> "abel address crypto address is not cryptographically valid",
              calls |-> << "ExtractCoinAddressFromCryptoAddress", "CheckCryptoAddress" >>]
        ELSE IF chainID < 0 \/ chainID > 14
        THEN [status |-> "ok", err |-> "abel address chain id is not in range [0, 14]",
              calls |-> << "ExtractCoinAddressFromCryptoAddress", "CheckCryptoAddress" >>]
        ELSE IF checksum # calculatedChecksum
        THEN [status |-> "ok", err |-> "abel address checksum is not valid",
              calls |-> << "ExtractCoinAddressFromCryptoAddress", "CheckCryptoAddress" >>]
        ELSE [status |-> "ok", err |-> "nil",
              calls |-> << "ExtractCoinAddressFromCryptoAddress", "CheckCryptoAddress" >>]

\* Mutant: Validate never compares the checksum.
AbelAddressValidate_nochecksum(a, extract, checkOK) ==
    LET err == AddressValidate(a)
        chainID == AbelAddressGetChainID(a)
        cryptoAddress == AbelAddressGetCryptoAddress(a, extract)
    IN  IF err # "nil" THEN [status |-> "ok", err |-> err, calls |-> << >>]
        ELSE IF Len(a.data) # ABEL_ADDRESS_LENGTH
        THEN [status |-> "ok", err |-> "abel address data length is not 10729",
              calls |-> << >>]
        ELSE IF chainID < 0 \/ chainID > 14
        THEN [status |-> "ok", err |-> "abel address chain id is not in range [0, 14]",
              calls |-> << >>]
        ELSE IF IsPanic(cryptoAddress)
        THEN [status |-> "panic", err |-> cryptoAddress.panic,
              calls |-> << "ExtractCoinAddressFromCryptoAddress" >>]
        ELSE IF ~checkOK
        THEN [status |-> "ok",
              err |-> "abel address crypto address is not cryptographically valid",
              calls |-> << "ExtractCoinAddressFromCryptoAddress", "CheckCryptoAddress" >>]
        ELSE [status |-> "ok", err |-> "nil",
              calls |-> << "ExtractCoinAddressFromCryptoAddress", "CheckCryptoAddress" >>]

\* AbelAddress.Validate().  extract and checkOK are the backend's answers to
\* ExtractCoinAddressFromCryptoAddress and CheckCryptoAddress on the
\* embedded CryptoAddress bytes.  The result is [status, err, calls]: err is
\* "nil" or the error's text, calls the backend calls made, in order.
AbelAddressValidate(a, extract, checkOK) ==
    LET err == AddressValidate(a)
        chainID == AbelAddressGetChainID(a)
        cryptoAddress == AbelAddressGetCryptoAddress(a, extract)
        checksum == AbelAddressGetChecksum(a)
        calculatedChecksum == CheckSum(<< ToByte(chainID) >> \o cryptoAddress.data)
    IN  IF err # "nil" THEN [status |-> "ok", err |-> err, calls |-> << >>]
        ELSE IF Len(a.data) # ABEL_ADDRESS_LENGTH
        THEN [status |-> "ok", err |-> "abel address data length is not 10729",
              calls |-> << >>]
        ELSE IF chainID < 0 \/ chainID > 14
        THEN [status |-> "ok", err |-> "abel address chain id is not in range [0, 14]",
              calls |-> << >>]
        ELSE IF IsPanic(cryptoAddress)
        THEN [status |-> "panic", err |-> cryptoAddress.panic,
              calls |-> << "ExtractCoinAddressFromCryptoAddress" >>]
        ELSE IF ~checkOK
        THEN [status |-> "ok",
              err |-> "abel address crypto address is not cryptographically valid",
              calls |-> << "ExtractCoinAddressFromCryptoAddress", "CheckCryptoAddress" >>]
        ELSE IF checksum # calculatedChecksum
        THEN [status |-> "ok", err |-> "abel address checksum is not valid",
              calls |-> << "ExtractCoinAddressFromCryptoAddress", "CheckCryptoAddress" >>]
        ELSE [status |-> "ok", err |-> "nil",
              calls |-> << "ExtractCoinAddressFromCryptoAddress", "CheckCryptoAddress" >>]

\* NewShortAbelAddress(data).  backing is the array behind the slice data,
\* up to its capacity: data.Slice()[2:34] reads it, and panics when the
\* capacity is less than 34.
NewShortAbelAddress(data, backing) ==
    LET shortAddress == NewAddress(data, "ShortAbelAddress", << << >> >>)
    IN  IF Len(backing) < 34
        THEN Panic("slice bounds out of range")
        ELSE [shortAddress EXCEPT !.fingerprint = SubSeq(backing, 3, 34)]

\* Mutant: the second byte is the chain ID itself, without the base 0xe1.
MakeShortAbelAddress_nobase(fingerprint, cryptoAddressHash, chainID) ==
    LET id == IF Len(chainID) = 0 THEN DEFAULT_CHAIN_ID ELSE chainID[1]
        saData == << 171, ToByte(id) >> \o fingerprint \o cryptoAddressHash
    IN  NewShortAbelAddress(saData, saData)

\* MakeShortAbelAddress(fingerprint, cryptoAddressHash, chainID...): chainID
\* is the variadic argument list.  saData is made with the capacity it is
\* then filled to.
MakeShortAbelAddress(fingerprint, cryptoAddressHash, chainID) ==
    LET id == IF Len(chainID) = 0 THEN DEFAULT_CHAIN_ID ELSE chainID[1]
        saData == << 171, ToByte(225 + ToByte(id)) >> \o fingerprint \o cryptoAddressHash
    IN  NewShortAbelAddress(saData, saData)

\* ShortAbelAddress.GetChainID(): int8(data[1] - 0xe1).
ShortAbelAddressGetChainID(a) == ToInt8(ToByte(a.data[2] - 225))

ShortAbelAddressValidate(a) ==
    LET err == AddressValidate(a)
        chainID == ShortAbelAddressGetChainID(a)
    IN  IF err # "nil" THEN err
        ELSE IF Len(a.data) # SHORT_ABEL_ADDRESS_LENGTH
        THEN "short abel address data length is not 66"
        ELSE IF a.data[1] # 171
        THEN "short abel address data is not prefixed with 0xab"
        ELSE IF chainID < 0 \/ chainID > 15
        THEN "short abel address chain id is not in range [0, 15]"
        ELSE "nil"

----------------------------------------------------------------------------
(* Inputs of the address hierarchy.                                        *)

\* The number of different byte fillings (seeds) the inputs are drawn from.
NumSeeds == 2

Seeds == 1..NumSeeds

\* A byte string of n bytes, different for each seed (as a tuple).
RawBytes(seed, n) == [i \in 1..n |-> (seed * 37 + i * 11) % 256] \o << >>

\* The backend's answers to ExtractCoinAddressFromCryptoAddress.
ExtractFails == [err |-> TRUE, coinAddressData |-> << >>]

ExtractGives(seed) == [err |-> FALSE, coinAddressData |-> RawBytes(seed, COIN_ADDRESS_LENGTH)]

Extracts(seed) == {ExtractFails, ExtractGives(seed)}

\* Lengths around a variant's fixed length L, with the short ones.
LengthsAround(L) == {0, 1, 33, 34, L - 1, L, L + 1}

\* The first two bytes of ShortAbelAddress data under test: the prefix 0xab
\* or not, chain IDs 0, 15, 16 and -1.
ShortPrefixes == { <<171, 225>>, <<171, 240>>, <<171, 241>>, <<171, 224>>, <<0, 225>> }

\* ShortAbelAddress data of n bytes: the two prefix bytes, then a filling.
ShortData(prefix, seed, n) ==
    [i \in 1..n |-> IF i <= 2 THEN prefix[i] ELSE RawBytes(seed, n)[i]]

\* The chain IDs an AbelAddress is made with.
AbelChainIDs == {0, 14, 15, -1}

\* AbelAddress data under test: raw bytes of some length, or the data of an
\* address made of a CryptoAddress and a chain ID.
AbelShapes ==
    {[kind |-> "raw", len |-> n] : n \in LengthsAround(ABEL_ADDRESS_LENGTH)}
        \cup {[kind |-> "made", chainID |-> c] : c \in AbelChainIDs}

\* The AbelAddress NewAbelAddressFromCryptoAddress makes of the
\* CryptoAddress of n bytes filled by seed.
MadeAbelAddress(chainID, seed, n, extract) ==
    NewAbelAddressFromCryptoAddress(NewCryptoAddress(RawBytes(seed, n), extract), << chainID >>)

\* Positions of an AbelAddress's data (from 1) at which a byte is changed:
\* the chain ID byte, the first, a middle and the last byte of the
\* CryptoAddress, the first and the last byte of the checksum.
TamperPositions ==
    {1, 2, 5000, CRYPTO_ADDRESS_LENGTH + 1, CRYPTO_ADDRESS_LENGTH + 2, ABEL_ADDRESS_LENGTH}

InCryptoAddress(pos) == 2 <= pos /\ pos <= CRYPTO_ADDRESS_LENGTH + 1

\* What is added (modulo 256) to the byte that is changed.
TamperDeltas == {1, 255}

Tamper(data, pos, delta) == [data EXCEPT ![pos] = (@ + delta) % 256]

----------------------------------------------------------------------------
(* Coin serial numbers.                                                    *)

\* A nil Bytes value: it holds no byte.
NilBytes == << >>

\* The outpoint api.NewOutPointFromTxIdStr builds for one coin ID.
OutPointOfCoinID(coinID) ==
    [txidStr |-> HexEncodeToString(coinID.TxHash), index |-> coinID.Index]

\* api.NewCryptoKey(nil, nil, serialNoSecretKey.Bytes, nil).
SerialNoCryptoKeyOf(serialNoSecretKey) ==
    [address |-> NilBytes, spend |-> NilBytes, sn |-> serialNoSecretKey,
     view |-> NilBytes]

\* Mutant: the result holds the backend's serial numbers from the last to
\* the first.
CoinSerialNumbersOf_reversed(n, serialNumbers) ==
    IF Len(serialNumbers) > n
    THEN [status |-> "panic", err |-> "index out of range"]
    ELSE [status |-> "ok",
          coinSerialNumbers |->
              [i \in 1..n |-> IF i <= Len(serialNumbers)
                              THEN serialNumbers[Len(serialNumbers) + 1 - i]
                              ELSE NilBytes]]

\* coinSerialNumbers := make([]Bytes, n), then the loop over serialNumbers
\* that stores serialNumbers[i] at index i, and the return: an index past n
\* panics, an index never stored stays nil.
CoinSerialNumbersOf(n, serialNumbers) ==
    IF Len(serialNumbers) > n
    THEN [status |-> "panic", err |-> "index out of range"]
    ELSE [status |-> "ok",
          coinSerialNumbers |->
              [i \in 1..n |-> IF i <= Len(serialNumbers) THEN serialNumbers[i]
                              ELSE NilBytes]]

\* DecodeCoinSerialNumbers(coinIDs, serialNoSecretKeys, ringBlockDescs).
\* The backend's answers are inputs:
\*   iterOrder      the order in which the map ringBlockDescs is iterated,
\*   badIn          the first coin ID whose outpoint the backend refuses
\*                  (0: none),
\*   genErr         whether GenerateCoinSerialNumber fails,
\*   serialNumbers  the serial numbers it returns otherwise.
\* The result is <<ret, api>>, as for GenerateUnsignedRawTx.
DecodeCoinSerialNumbers(coinIDs, serialNoSecretKeys, ringBlockDescs, iterOrder, badIn, genErr, serialNumbers) ==
    LET outPoints == [i \in 1..Len(coinIDs) |-> OutPointOfCoinID(coinIDs[i])]
        serializedBlocksForRingGroup ==
            getSerializedBlocksForRingGroup(ringBlockDescs, iterOrder)
        cryptoSecretKeys ==
            [i \in 1..Len(serialNoSecretKeys) |-> SerialNoCryptoKeyOf(serialNoSecretKeys[i])]
        gen == [fn |-> "GenerateCoinSerialNumber",
                outPoints |-> outPoints,
                serializedBlocksForRingGroup |-> serializedBlocksForRingGroup,
                cryptoSecretKeys |-> cryptoSecretKeys,
                serialNumbers |-> serialNumbers,
                err |-> genErr]
    IN  IF badIn > 0
        THEN << [status |-> "err", err |-> "NewOutPointFromTxIdStr"],
                [fn |-> "NewOutPointFromTxIdStr",
                 outPoint |-> outPoints[badIn], err |-> TRUE] >>
        ELSE IF genErr
        THEN << [status |-> "err", err |-> "GenerateCoinSerialNumber"], gen >>
        ELSE << CoinSerialNumbersOf(Len(coinIDs), serialNumbers), gen >>

\* Inputs of DecodeCoinSerialNumbers.
MaxCoins == 2

CoinIDSet ==
    { [TxHash |-> <<171, 1>>, Index |-> 0], [TxHash |-> <<0, 255>>, Index |-> 1] }

SerialNoSecretKeySet == { << "sn", "a1" >>, << "sn", "a2" >> }

\* The serial numbers the backend may return: one more than the coins, at most.
SerialNumberSet == { <<9>>, <<8, 8>> }

----------------------------------------------------------------------------
(* Coin values.                                                            *)

\* What api.ExtractCoinValueFromSerializedTxOut leaves in the key buffer it
\* is given: every byte cleared.
ClearBytes(buffer) == [i \in 1..Len(buffer) |-> 0]

\* Mutant: the backend is given the caller's key buffer itself.
DecodeValueFromTxOutData_nocopy(txOutData, key, extractErr, value) ==
    LET mem == [viewSecretKey |-> key]
        after == [mem EXCEPT !["viewSecretKey"] = ClearBytes(@)]
    IN  [returned |-> IF extractErr
                      THEN [status |-> "err", value |-> -1,
                            err |-> "ExtractCoinValueFromSerializedTxOut"]
                      ELSE [status |-> "ok", value |-> WrapInt64(value)],
         call |-> [fn |-> "ExtractCoinValueFromSerializedTxOut",
                  txOutData |-> txOutData,
                  viewSecretKeyData |-> mem["viewSecretKey"],
                  cleared |-> after["viewSecretKey"],
                  err |-> extractErr],
         keyAfter |-> after.viewSecretKey]

\* DecodeValueFromTxOutData(txOutData, viewSecretKey), over the two buffers
\* it touches: the caller's key (viewSecretKey) and the copy it makes
\* (viewSecretKeyData), which is the one the backend is given and clears.
\* The backend's answer is an input: extractErr, or the value (a uint64).
\* The result holds what the call returns, the backend call, and the
\* caller's key buffer after the call.
DecodeValueFromTxOutData(txOutData, key, extractErr, value) ==
    LET viewSecretKeyData == [i \in 1..Len(key) |-> key[i]]
        mem == [viewSecretKey |-> key, viewSecretKeyData |-> viewSecretKeyData]
        after == [mem EXCEPT !["viewSecretKeyData"] = ClearBytes(@)]
    IN  [returned |-> IF extractErr
                      THEN [status |-> "err", value |-> -1,
                            err |-> "ExtractCoinValueFromSerializedTxOut"]
                      ELSE [status |-> "ok", value |-> WrapInt64(value)],
         call |-> [fn |-> "ExtractCoinValueFromSerializedTxOut",
                  txOutData |-> txOutData,
                  viewSecretKeyData |-> mem["viewSecretKeyData"],
                  cleared |-> after["viewSecretKeyData"],
                  err |-> extractErr],
         keyAfter |-> after.viewSecretKey]

\* Inputs of DecodeValueFromTxOutData: serialized outputs, view secret keys
\* (one of them all zero already, one empty) and backend values.
TxOutDatas == { <<1>>, <<2, 2>> }

ViewSecretKeys == { << >>, <<0>>, <<7>>, <<7, 9>>, <<0, 9, 255>> }

Uint64Values == {0, 1000, MaxInt64, MaxInt64 + 1, Pow2(IntBits) - 1}

----------------------------------------------------------------------------
(* Coin address and fingerprint of an input coin.                          *)

\* DecodeCoinAddressFromTxOutData(txOutData).  The backend's answer to
\* ExtractCoinAddressFromSerializedTxOut is the input extract.
DecodeCoinAddressFromTxOutData(txOutData, extract) ==
    IF extract.err
    THEN [status |-> "err", err |-> "ExtractCoinAddressFromSerializedTxOut"]
    ELSE [status |-> "ok", coinAddress |-> NewCoinAddress(extract.coinAddressData)]

\* TxInDesc.GetCoinAddress(): the address, or the error as it came.
TxInDescGetCoinAddress(d, extract) ==
    LET r == DecodeCoinAddressFromTxOutData(d.TxOutData, extract)
    IN  IF r.status = "err" THEN r ELSE [status |-> "ok", coinAddress |-> r.coinAddress]

\* TxInDesc.GetFingerprint(): a Bytes and no error; nil when GetCoinAddress
\* fails.
TxInDescGetFingerprint(d, extract) ==
    LET r == TxInDescGetCoinAddress(d, extract)
    IN  IF r.status = "err" THEN NilBytes ELSE r.coinAddress.fingerprint

----------------------------------------------------------------------------
Init ==
    /\ op = "idle"
    /\ arg = None
    /\ api = None
    /\ ret = None
    /\ unsignedTx = None
    /\ viewSecretKeyBytes = None

CallGetRingBlockHeights ==
    /\ op = "idle"
    /\ \E height \in Int64 :
        /\ op' = "GetRingBlockHeights"
        /\ arg' = [height |-> height]
        /\ api' = None
        /\ ret' = GetRingBlockHeights(height)
    /\ UNCHANGED <<unsignedTx, viewSecretKeyBytes>>

CallGetSerializedBlocksForRingGroup ==
    /\ op = "idle"
    /\ \E ringBlockDescs \in BlockMaps :
       \E iterOrder \in Perms(DOMAIN ringBlockDescs) :
        /\ op' = "getSerializedBlocksForRingGroup"
        /\ arg' = [ringBlockDescs |-> ringBlockDescs, iterOrder |-> iterOrder]
        /\ api' = None
        /\ ret' = getSerializedBlocksForRingGroup(ringBlockDescs, iterOrder)
    /\ UNCHANGED <<unsignedTx, viewSecretKeyBytes>>

CallGenerateUnsignedRawTx ==
    /\ op = "idle"
    /\ \E txDesc \in TxDescs :
       \E iterOrder \in Perms(DOMAIN txDesc.TxRingBlockDescs) :
       \E badIn \in 0..Len(txDesc.TxInDescs), badOut \in 0..Len(txDesc.TxOutDescs) :
       \E buildErr \in BOOLEAN :
        /\ Len(txDesc.TxInDescs) + Len(txDesc.TxOutDescs) <= MaxTxItems
        /\ LET r == GenerateUnsignedRawTx(txDesc, iterOrder, badIn, badOut,
                                          buildErr, <<1, 2, 3>>)
           IN  /\ op' = "GenerateUnsignedRawTx"
               /\ arg' = [txDesc |-> txDesc]
               /\ ret' = r[1]
               /\ api' = r[2]
    /\ UNCHANGED <<unsignedTx, viewSecretKeyBytes>>

\* The client keeps the unsigned transaction it was returned, to sign it.
KeepUnsignedRawTx ==
    /\ op = "GenerateUnsignedRawTx"
    /\ ret.status = "ok"
    /\ op' = "holding"
    /\ unsignedTx' = ret.tx
    /\ arg' = None
    /\ api' = None
    /\ ret' = None
    /\ UNCHANGED viewSecretKeyBytes

CallGenerateSignedRawTx ==
    /\ op = "holding"
    /\ \E signerKeys \in SeqUpTo(SignerKeySet, MaxKeys) :
       \E signErr \in BOOLEAN, txid \in Txids :
        LET r == GenerateSignedRawTx(unsignedTx, signerKeys, signErr, <<4, 5>>, txid)
        IN  /\ op' = "GenerateSignedRawTx"
            /\ arg' = [unsignedRawTx |-> unsignedTx, signerKeys |-> signerKeys]
            /\ ret' = r[1]
            /\ api' = r[2]
    /\ UNCHANGED <<unsignedTx, viewSecretKeyBytes>>

CallMakeShortAbelAddress ==
    /\ op = "idle"
    /\ \E seed \in Seeds, fpLen \in {31, 32}, hashLen \in {0, 32} :
       \E chainID \in {<< >>} \cup {<< c >> : c \in Int8} :
        LET fingerprint == RawBytes(seed, fpLen)
            cryptoAddressHash == RawBytes(seed + 1, hashLen)
            s == MakeShortAbelAddress(fingerprint, cryptoAddressHash, chainID)
        IN  /\ op' = "MakeShortAbelAddress"
            /\ arg' = [fingerprint |-> fingerprint,
                       cryptoAddressHash |-> cryptoAddressHash,
                       chainID |-> chainID]
            /\ api' = None
            /\ ret' = IF IsPanic(s) THEN [status |-> "panic", err |-> s.panic]
                      ELSE [status |-> "ok", address |-> s,
                            GetChainID |-> ShortAbelAddressGetChainID(s)]
    /\ UNCHANGED <<unsignedTx, viewSecretKeyBytes>>

\* NewCoinAddress(data) followed by Validate().
CallCoinAddressValidate ==
    /\ op = "idle"
    /\ \E seed \in Seeds, n \in LengthsAround(COIN_ADDRESS_LENGTH) :
        LET a == NewCoinAddress(RawBytes(seed, n))
        IN  /\ op' = "CoinAddress.Validate"
            /\ arg' = [variant |-> "CoinAddress", seed |-> seed, len |-> n]
            /\ api' = [fn |-> "address", calls |-> << >>]
            /\ ret' = [status |-> "ok", err |-> CoinAddressValidate(a)]
    /\ UNCHANGED <<unsignedTx, viewSecretKeyBytes>>

\* NewCryptoAddress(data) followed by Validate().
CallCryptoAddressValidate ==
    /\ op = "idle"
    /\ \E seed \in Seeds, n \in LengthsAround(CRYPTO_ADDRESS_LENGTH) :
       \E extract \in Extracts(seed) :
        LET a == NewCryptoAddress(RawBytes(seed, n), extract)
        IN  /\ op' = "CryptoAddress.Validate"
            /\ arg' = [variant |-> "CryptoAddress", seed |-> seed, len |-> n]
            /\ api' = [fn |-> "address",
                       calls |-> << "ExtractCoinAddressFromCryptoAddress" >>]
            /\ ret' = IF IsPanic(a) THEN [status |-> "panic", err |-> a.panic]
                      ELSE [status |-> "ok", err |-> CryptoAddressValidate(a)]
    /\ UNCHANGED <<unsignedTx, viewSecretKeyBytes>>

\* NewShortAbelAddress(data) followed by Validate(); the slice data has
\* spare more bytes of capacity than of length.
CallShortAbelAddressValidate ==
    /\ op = "idle"
    /\ \E seed \in Seeds, n \in LengthsAround(SHORT_ABEL_ADDRESS_LENGTH) :
       \E prefix \in ShortPrefixes, spare \in {0, 40} :
        LET backing == ShortData(prefix, seed, n + spare)
            a == NewShortAbelAddress(SubSeq(backing, 1, n), backing)
        IN  /\ op' = "ShortAbelAddress.Validate"
            /\ arg' = [variant |-> "ShortAbelAddress", seed |-> seed, len |-> n,
                       prefix |-> prefix, spare |-> spare]
            /\ api' = [fn |-> "address", calls |-> << >>]
            /\ ret' = IF IsPanic(a) THEN [status |-> "panic", err |-> a.panic]
                      ELSE [status |-> "ok", err |-> ShortAbelAddressValidate(a)]
    /\ UNCHANGED <<unsignedTx, viewSecretKeyBytes>>

\* What NewAbelAddress(data) followed by Validate() comes to: [status, err,
\* calls], the backend calls of the constructor included.
NewAbelAddressThenValidate(data, extract, checkOK) ==
    LET a == NewAbelAddress(data, extract)
        v == AbelAddressValidate(a, extract, checkOK)
    IN  IF Len(data) - CheckSumLength < 1
        THEN [status |-> "panic", err |-> a.panic, calls |-> << >>]
        ELSE IF IsPanic(a)
        THEN [status |-> "panic", err |-> a.panic,
              calls |-> << "ExtractCoinAddressFromCryptoAddress" >>]
        ELSE [v EXCEPT !.calls = << "ExtractCoinAddressFromCryptoAddress" >> \o @]

\* NewAbelAddress(data) followed by Validate().
CallAbelAddressValidate ==
    /\ op = "idle"
    /\ \E seed \in Seeds, shape \in AbelShapes :
        LET data == IF shape.kind = "raw" THEN RawBytes(seed, shape.len)
                    ELSE MadeAbelAddress(shape.chainID, seed, CRYPTO_ADDRESS_LENGTH,
                                         ExtractGives(seed)).data
        IN  \E extract \in Extracts(seed), checkOK \in BOOLEAN :
            LET r == NewAbelAddressThenValidate(data, extract, checkOK)
            IN  /\ op' = "AbelAddress.Validate"
                /\ arg' = [variant |-> "AbelAddress", seed |-> seed, shape |-> shape,
                           len |-> Len(data), extract |-> ~extract.err,
                           checkOK |-> checkOK]
                /\ api' = [fn |-> "address", calls |-> r.calls]
                /\ ret' = [status |-> r.status, err |-> r.err]
    /\ UNCHANGED <<unsignedTx, viewSecretKeyBytes>>

\* An AbelAddress made of a CryptoAddress and a chain ID is valid (its
\* Validate() returns nil); one byte of its data is changed, and
\* NewAbelAddress of the changed data is validated.  The backend answers for
\* the changed CryptoAddress bytes (extract, checkOK) as it likes, and as for
\* the original ones when the byte changed lies outside the CryptoAddress.
CallTamperedAbelAddressValidate ==
    /\ op = "idle"
    /\ \E seed \in Seeds, chainID \in AbelChainIDs :
        LET made == MadeAbelAddress(chainID, seed, CRYPTO_ADDRESS_LENGTH, ExtractGives(seed))
            orig == AbelAddressValidate(made, ExtractGives(seed), TRUE)
        IN  /\ orig.status = "ok" /\ orig.err = "nil"
            /\ \E pos \in TamperPositions, delta \in TamperDeltas :
               \E extract \in Extracts(seed), checkOK \in BOOLEAN :
                /\ InCryptoAddress(pos) \/ (extract = ExtractGives(seed) /\ checkOK)
                /\ LET r == NewAbelAddressThenValidate(Tamper(made.data, pos, delta),
                                                       extract, checkOK)
                   IN  /\ op' = "TamperedAbelAddress.Validate"
                       /\ arg' = [chainID |-> chainID, seed |-> seed, pos |-> pos,
                                  delta |-> delta, extract |-> ~extract.err,
                                  checkOK |-> checkOK]
                       /\ api' = [fn |-> "address", calls |-> r.calls]
                       /\ ret' = [status |-> r.status, err |-> r.err]
    /\ UNCHANGED <<unsignedTx, viewSecretKeyBytes>>

CallDecodeCoinSerialNumbers ==
    /\ op = "idle"
    /\ \E coinIDs \in SeqUpTo(CoinIDSet, MaxCoins) :
       \E serialNoSecretKeys \in SeqUpTo(SerialNoSecretKeySet, MaxCoins) :
       \E ringBlockDescs \in TxRingBlockDescSet :
       \E iterOrder \in Perms(DOMAIN ringBlockDescs) :
       \E badIn \in 0..Len(coinIDs), genErr \in BOOLEAN :
       \E serialNumbers \in SeqUpTo(SerialNumberSet, MaxCoins + 1) :
        LET r == DecodeCoinSerialNumbers(coinIDs, serialNoSecretKeys, ringBlockDescs,
                                         iterOrder, badIn, genErr, serialNumbers)
        IN  /\ op' = "DecodeCoinSerialNumbers"
            /\ arg' = [coinIDs |-> coinIDs, serialNoSecretKeys |-> serialNoSecretKeys,
                       ringBlockDescs |-> ringBlockDescs]
            /\ ret' = r[1]
            /\ api' = r[2]
    /\ UNCHANGED <<unsignedTx, viewSecretKeyBytes>>

CallDecodeValueFromTxOutData ==
    /\ op = "idle"
    /\ \E txOutData \in TxOutDatas, key \in ViewSecretKeys :
       \E extractErr \in BOOLEAN, value \in Uint64Values :
        LET r == DecodeValueFromTxOutData(txOutData, key, extractErr, value)
        IN  /\ op' = "DecodeValueFromTxOutData"
            /\ arg' = [txOutData |-> txOutData, viewSecretKey |-> key]
            /\ ret' = r.returned
            /\ api' = r.call
            /\ viewSecretKeyBytes' = r.keyAfter
    /\ UNCHANGED unsignedTx

\* NewTxInDesc(data) followed by GetFingerprint().
CallTxInDescGetFingerprint ==
    /\ op = "idle"
    /\ \E txOutData \in TxOutDatas, seed \in Seeds :
       \E extract \in Extracts(seed) :
        LET d == [TxOutData |-> txOutData, CoinValue |-> -1]
        IN  /\ op' = "TxInDesc.GetFingerprint"
            /\ arg' = [txInDesc |-> d]
            /\ api' = [fn |-> "ExtractCoinAddressFromSerializedTxOut",
                       txOutData |-> txOutData, err |-> extract.err]
            /\ ret' = [status |-> "ok", fingerprint |-> TxInDescGetFingerprint(d, extract)]
    /\ UNCHANGED <<unsignedTx, viewSecretKeyBytes>>

\* Validate() of the zero value of AbelAddress (no data, no fingerprint).
CallZeroAbelAddressValidate ==
    /\ op = "idle"
    /\ \E seed \in Seeds, checkOK \in BOOLEAN :
        LET a == [data |-> NilBytes, addressType |-> "AnyAddress", fingerprint |-> NilBytes]
            r == AbelAddressValidate(a, ExtractGives(seed), checkOK)
        IN  /\ op' = "AbelAddress.Validate"
            /\ arg' = [variant |-> "AbelAddress", seed |-> seed,
                       shape |-> [kind |-> "zero"], len |-> 0, extract |-> TRUE,
                       checkOK |-> checkOK]
            /\ api' = [fn |-> "address", calls |-> r.calls]
            /\ ret' = [status |-> r.status, err |-> r.err]
    /\ UNCHANGED <<unsignedTx, viewSecretKeyBytes>>

\* The call is over: the client is ready for the next one.
Return ==
    /\ op \notin {"idle"}
    /\ op' = "idle"
    /\ arg' = None
    /\ api' = None
    /\ ret' = None
    /\ unsignedTx' = None
    /\ viewSecretKeyBytes' = None

Next ==
    \/ CallGetRingBlockHeights
    \/ CallGetSerializedBlocksForRingGroup
    \/ CallGenerateUnsignedRawTx
    \/ KeepUnsignedRawTx
    \/ CallGenerateSignedRawTx
    \/ CallMakeShortAbelAddress
    \/ CallCoinAddressValidate
    \/ CallCryptoAddressValidate
    \/ CallShortAbelAddressValidate
    \/ CallAbelAddressValidate
    \/ CallTamperedAbelAddressValidate
    \/ CallDecodeCoinSerialNumbers
    \/ CallDecodeValueFromTxOutData
    \/ CallTxInDescGetFingerprint
    \/ CallZeroAbelAddressValidate
    \/ Return

Spec == Init /\ [][Next]_vars

----------------------------------------------------------------------------
(* Properties.                                                             *)

\* The list is three consecutive integers from a multiple of 3.
AlignedTriple(heights) ==
    /\ Len(heights) = 3
    /\ heights[1] % 3 = 0
    /\ heights = << heights[1], heights[1] + 1, heights[1] + 2 >>

\* The three heights height - height%3 + k (k = 0, 1, 2) yield the list too.
SameRingForWindow(height, heights) ==
    \A k \in 0..2 :
        GetRingBlockHeights(WrapInt64(height - GoRem(height, 3) + k)) = heights

\* C1 as stated: for every int64 height H, GetRingBlockHeights(H) is three
\* consecutive integers [b, b+1, b+2] with b a multiple of 3, and is the list
\* returned for H - H%3, H - H%3 + 1 and H - H%3 + 2.
C1_AllHeights ==
    op = "GetRingBlockHeights" =>
        AlignedTriple(ret) /\ SameRingForWindow(arg.height, ret)

\* C1 as amended: for every height H <= MaxInt64 - 2 the list is three
\* consecutive integers from a multiple of 3; for every height H with
\* 0 <= H <= MaxInt64 - 2 it is also the list returned for H - H%3,
\* H - H%3 + 1 and H - H%3 + 2.
C1_RingDeterminism ==
    (op = "GetRingBlockHeights" /\ arg.height <= MaxInt64 - 2) =>
        /\ AlignedTriple(ret)
        /\ arg.height >= 0 => SameRingForWindow(arg.height, ret)

C1_Witness ==
    op = "GetRingBlockHeights" /\ arg.height = 301 /\ ret = <<300, 301, 302>>

\* C2 as stated: for every int64 height H, negative ones included, H is one
\* of the three heights GetRingBlockHeights(H) returns.
C2_AllHeights ==
    op = "GetRingBlockHeights" => \E i \in 1..3 : ret[i] = arg.height

\* C2 as amended: for every height H >= 0, H is one of the three heights
\* GetRingBlockHeights(H) returns.
C2_WindowContainsHeight ==
    (op = "GetRingBlockHeights" /\ arg.height >= 0)
        => \E i \in 1..3 : ret[i] = arg.height

C2_Witness ==
    op = "GetRingBlockHeights" /\ arg.height = 302 /\ ret[3] = 302

\* C3: getSerializedBlocksForRingGroup returns one entry per map key, the
\* i-th entry being the BinData stored under the i-th smallest key, whatever
\* the order in which the map is iterated.
C3_RingOrdering ==
    op = "getSerializedBlocksForRingGroup" =>
        LET m == arg.ringBlockDescs
            keys == DOMAIN m
        IN  /\ Len(ret) = Cardinality(keys)
            /\ \A k \in keys :
                  ret[Cardinality({j \in keys : j < k}) + 1] = m[k].BinData
            /\ \A order \in Perms(keys) :
                  getSerializedBlocksForRingGroup(m, order) = ret

C3_Witness ==
    /\ op = "getSerializedBlocksForRingGroup"
    /\ arg.iterOrder = <<302, -3, 7>>
    /\ ret = << <<20>>, <<10>>, <<10>> >>

\* C4: when GenerateUnsignedRawTx succeeds, Signers has one entry per input
\* and Signers[i] is the Owner of TxInDescs[i], in the same order.
C4_SignerOrdering ==
    (op = "GenerateUnsignedRawTx" /\ ret.status = "ok") =>
        LET ins == arg.txDesc.TxInDescs
        IN  /\ Len(ret.tx.Signers) = Len(ins)
            /\ \A i \in 1..Len(ins) : ret.tx.Signers[i] = ins[i].Owner

C4_Witness ==
    /\ op = "GenerateUnsignedRawTx"
    /\ ret.status = "ok"
    /\ Len(arg.txDesc.TxInDescs) = 3
    /\ ret.tx.Signers = << "a2", "nil", "a1" >>

\* The addresses the signer keys belong to, in the order given.
KeyOwners(signerKeys) == [i \in 1..Len(signerKeys) |-> signerKeys[i].owner]

\* C5 as stated: GenerateSignedRawTx fails whenever the i-th signer key does
\* not belong to the i-th address of unsignedRawTx.Signers (keys permuted,
\* or not as many keys as signers).
C5_FailsOnMisorderedKeys ==
    (op = "GenerateSignedRawTx" /\ KeyOwners(arg.signerKeys) # arg.unsignedRawTx.Signers)
        => ret.status = "err"

\* C6: when GenerateSignedRawTx succeeds, Txid is the raw transaction ID the
\* backend returned with its bytes in reverse order: the same length,
\* Txid[i] = raw[len+1-i], and reversing Txid gives the raw ID back.
C6_TxidReversed ==
    (op = "GenerateSignedRawTx" /\ ret.status = "ok") =>
        LET raw == api.txid
            txid == ret.tx.Txid
            n == Len(raw)
        IN  /\ Len(txid) = n
            /\ \A i \in 1..n : txid[i] = raw[n + 1 - i]
            /\ [i \in 1..n |-> txid[n + 1 - i]] = raw

C6_Witness ==
    /\ op = "GenerateSignedRawTx"
    /\ ret.status = "ok"
    /\ api.txid = << 0, 255, 255 >>
    /\ ret.tx.Txid = << 255, 255, 0 >>

\* C7 as stated: GenerateUnsignedRawTx fails, and hands no output pair to the
\* backend build call, whenever an output's CoinValue is negative.
C7_NegativeValueFails ==
    (/\ op = "GenerateUnsignedRawTx"
     /\ \E i \in 1..Len(arg.txDesc.TxOutDescs) : arg.txDesc.TxOutDescs[i].CoinValue < 0)
        => /\ ret.status # "ok"
           /\ api.fn # "BuildTransferTxRequestDescFromBlocks"

\* C8: for a chain ID in 0..15, a fingerprint and a hash of 32 bytes,
\* MakeShortAbelAddress gives an address whose GetChainID() is the chain ID,
\* whose data is 66 bytes, starts with 0xab and holds the fingerprint at
\* bytes[2:34], which is its Fingerprint too.
C8_ShortAddressRoundTrip ==
    (/\ op = "MakeShortAbelAddress"
     /\ Len(arg.chainID) = 1 /\ arg.chainID[1] \in 0..15
     /\ Len(arg.fingerprint) = 32 /\ Len(arg.cryptoAddressHash) = 32)
        => /\ ret.status = "ok"
           /\ ret.GetChainID = arg.chainID[1]
           /\ Len(ret.address.data) = 66
           /\ ret.address.data[1] = 171
           /\ SubSeq(ret.address.data, 3, 34) = arg.fingerprint
           /\ ret.address.fingerprint = arg.fingerprint

C8_Witness ==
    /\ op = "MakeShortAbelAddress"
    /\ arg.chainID = << 15 >>
    /\ Len(arg.fingerprint) = 32 /\ Len(arg.cryptoAddressHash) = 32
    /\ ret.status = "ok"
    /\ ret.GetChainID = 15
    /\ ret.address.data[2] = 240

\* The fixed length of a variant's data, and the error its Validate()
\* returns for another length.
FixedLength(variant) ==
    CASE variant = "CoinAddress" -> COIN_ADDRESS_LENGTH
      [] variant = "CryptoAddress" -> CRYPTO_ADDRESS_LENGTH
      [] variant = "AbelAddress" -> ABEL_ADDRESS_LENGTH
      [] variant = "ShortAbelAddress" -> SHORT_ABEL_ADDRESS_LENGTH

LengthError(variant) ==
    CASE variant = "CoinAddress" -> "coin address data length is not 9504"
      [] variant = "CryptoAddress" -> "crypto address data length is not 10696"
      [] variant = "AbelAddress" -> "abel address data length is not 10729"
      [] variant = "ShortAbelAddress" -> "short abel address data length is not 66"

ValidateOps ==
    {"CoinAddress.Validate", "CryptoAddress.Validate", "AbelAddress.Validate",
     "ShortAbelAddress.Validate"}

\* C9 as stated: an address constructed by its New* constructor from data of
\* any length other than the variant's (empty and short data included) is
\* constructed normally, and its Validate() returns the variant's length
\* error.  (A backend that cannot extract the coin address of the data is
\* not held against the claim.)
C9_WrongLengthFailsValidate ==
    (/\ op \in ValidateOps
     /\ arg.len # FixedLength(arg.variant)
     /\ ret.err # "Failed to extract coin address from crypto address")
        => /\ ret.status = "ok"
           /\ ret.err = LengthError(arg.variant)

\* C10 as stated: a valid AbelAddress with one byte of its CryptoAddress
\* changed fails Validate() with the checksum error, and nothing else.
C10_TamperGivesChecksumError ==
    (op = "TamperedAbelAddress.Validate" /\ InCryptoAddress(arg.pos))
        => /\ ret.status = "ok"
           /\ ret.err = "abel address checksum is not valid"

\* C10 as amended: a valid AbelAddress with one byte of its CryptoAddress
\* changed never passes Validate().  Validate() returns the checksum error
\* when the backend accepts the changed CryptoAddress bytes, and the
\* cryptographic-validity error when CheckCryptoAddress rejects them; when
\* the backend cannot extract their coin address, NewAbelAddress panics.
C10_TamperNeverPasses ==
    (op = "TamperedAbelAddress.Validate" /\ InCryptoAddress(arg.pos))
        => /\ ~(ret.status = "ok" /\ ret.err = "nil")
           /\ (arg.extract /\ arg.checkOK) =>
                (ret.status = "ok" /\ ret.err = "abel address checksum is not valid")
           /\ (arg.extract /\ ~arg.checkOK) =>
                (/\ ret.status = "ok"
                 /\ ret.err = "abel address crypto address is not cryptographically valid")
           /\ ~arg.extract => ret.status = "panic"

C10_Witness ==
    /\ op = "TamperedAbelAddress.Validate"
    /\ arg.pos = 5000
    /\ arg.extract /\ arg.checkOK
    /\ ret.status = "ok"
    /\ ret.err = "abel address checksum is not valid"

\* C11 as stated: when DecodeCoinSerialNumbers succeeds, whatever number of
\* serial numbers the backend returned, the result has one entry per coin ID
\* and its i-th entry is the i-th serial number the backend returned; each
\* key handed to the backend carries the serial-number secret alone.
C11_SerialNumbersAligned ==
    (op = "DecodeCoinSerialNumbers" /\ ret.status = "ok") =>
        /\ Len(ret.coinSerialNumbers) = Len(arg.coinIDs)
        /\ \A i \in 1..Len(arg.coinIDs) :
            /\ i <= Len(api.serialNumbers)
            /\ ret.coinSerialNumbers[i] = api.serialNumbers[i]
        /\ \A i \in 1..Len(api.cryptoSecretKeys) :
            /\ api.cryptoSecretKeys[i].sn = arg.serialNoSecretKeys[i]
            /\ api.cryptoSecretKeys[i].address = NilBytes
            /\ api.cryptoSecretKeys[i].spend = NilBytes
            /\ api.cryptoSecretKeys[i].view = NilBytes

\* C12: after every call of DecodeValueFromTxOutData, failing or not, the
\* caller's view secret key holds the bytes it held before the call, while
\* the buffer the backend was given (a copy of the key) has been cleared.
C12_ViewKeyUnchanged ==
    op = "DecodeValueFromTxOutData" =>
        /\ viewSecretKeyBytes = arg.viewSecretKey
        /\ api.viewSecretKeyData = arg.viewSecretKey
        /\ api.cleared = [i \in 1..Len(arg.viewSecretKey) |-> 0]

C12_Witness ==
    /\ op = "DecodeValueFromTxOutData"
    /\ ret.status = "err"
    /\ arg.viewSecretKey = << 7, 9 >>
    /\ api.cleared = << 0, 0 >>
    /\ viewSecretKeyBytes = << 7, 9 >>

\* C13 as stated: when a backend call made by an operation fails, the
\* operation does not return normally: it hands its caller a failure (an
\* abort of the call is let pass here), never a result such as a nil
\* fingerprint in the failure's place.
C13_BackendFailureReported ==
    ("err" \in DOMAIN api /\ api.err) => ret.status # "ok"

\* The error of the first of the five steps of AbelAddress.Validate() that
\* fails, "nil" when none does: the data is empty, the length is not
\* 10729, the chain ID is not in 0..14, the backend finds the CryptoAddress
\* invalid, the checksum does not match.
FirstFailingStep(empty, len, chainID, checkOK, checksumOK) ==
    IF empty THEN "address data is empty"
    ELSE IF len # 10729 THEN "abel address data length is not 10729"
    ELSE IF chainID \notin 0..14 THEN "abel address chain id is not in range [0, 14]"
    ELSE IF ~checkOK THEN "abel address crypto address is not cryptographically valid"
    ELSE IF ~checksumOK THEN "abel address checksum is not valid"
    ELSE "nil"

\* What Validate() is to return for the address of the state, from the way
\* the address was made: the zero value, raw bytes, an address made of a
\* CryptoAddress and a chain ID, or such an address with one byte changed.
ExpectedAbelError ==
    IF op = "TamperedAbelAddress.Validate"
    THEN FirstFailingStep(FALSE, ABEL_ADDRESS_LENGTH,
                          IF arg.pos = 1
                          THEN ToInt8(ToByte(ToByte(arg.chainID) + arg.delta))
                          ELSE arg.chainID,
                          arg.checkOK, FALSE)
    ELSE IF arg.shape.kind = "zero"
    THEN FirstFailingStep(TRUE, 0, 0, arg.checkOK, FALSE)
    ELSE IF arg.shape.kind = "raw"
    THEN FirstFailingStep(FALSE, arg.len, ToInt8((arg.seed * 37 + 11) % 256),
                          arg.checkOK, FALSE)
    ELSE FirstFailingStep(FALSE, arg.len, arg.shape.chainID, arg.checkOK, TRUE)

\* C14: AbelAddress.Validate() returns the error of the first failing step
\* in the order non-empty, length, chain ID range, backend validity,
\* checksum, and nil only when none fails; the backend's validity check is
\* called only when the three steps before it passed.
C14_ValidateOrder ==
    (/\ op \in {"AbelAddress.Validate", "TamperedAbelAddress.Validate"}
     /\ ret.status = "ok")
        => /\ ret.err = ExpectedAbelError
           /\ (\E i \in 1..Len(api.calls) : api.calls[i] = "CheckCryptoAddress")
                <=> ret.err \in {"abel address crypto address is not cryptographically valid",
                                 "abel address checksum is not valid", "nil"}

C14_Witness ==
    /\ op = "AbelAddress.Validate"
    /\ arg.shape = [kind |-> "made", chainID |-> 15]
    /\ ~arg.checkOK
    /\ ret = [status |-> "ok", err |-> "abel address chain id is not in range [0, 14]"]
    /\ api.calls = << "ExtractCoinAddressFromCryptoAddress" >>

\* C15 as stated: for a TxDesc with one input coin, at height H, the ring
\* blocks GenerateUnsignedRawTx hands to the backend build call are the
\* blocks at the three heights GetRingBlockHeights(H), in that order, and
\* no other.
C15_RingBlocksOfInputHeight ==
    (/\ op = "GenerateUnsignedRawTx"
     /\ api.fn = "BuildTransferTxRequestDescFromBlocks"
     /\ Len(arg.txDesc.TxInDescs) = 1)
        => LET heights == GetRingBlockHeights(arg.txDesc.TxInDescs[1].Height)
               blocks == arg.txDesc.TxRingBlockDescs
               passed == api.serializedBlocksForRingGroup
           IN  /\ Len(passed) = 3
               /\ \A i \in 1..3 :
                    /\ heights[i] \in DOMAIN blocks
                    /\ passed[i] = blocks[heights[i]].BinData

====
